---- MODULE Spec2Model ----
(***************************************************************************)
(* A model of specmonkey's crawl-filter-aggregate pipeline:                *)
(*   gather_files (util.rs), URLCrawler (url_crawler.rs),                  *)
(*   extract_links (lib.rs), Index::from_raw_data and Index::write_json    *)
(*   (index.rs).                                                           *)
(*                                                                         *)
(* Text is modelled as sequences of one-character strings, so that the     *)
(* string operations of the code (to_lowercase, ends_with, split, the URL  *)
(* parser's host extraction) are computed rather than assumed.             *)
(***************************************************************************)
EXTENDS Integers, Sequences, FiniteSets, TLC

VARIABLES
    stage,              \* position of the calling thread
    wl_input,           \* the whitelist_domains argument of URLCrawler::new
    whitelist_domains,  \* URLCrawler.whitelist_domains
    url_string,         \* argument of a direct filter_domains call
    line_arg,           \* line_number argument of a direct filter_domains call
    filter_result,      \* Option<(String, String, usize)> it returned
    fs,                 \* the file system: path -> file
    filepaths,          \* URLCrawler.filepaths / extract_links' file_paths
    pc,                 \* per list entry: where its parallel task stands
    pos,                \* per list entry: lines its reader has consumed
    count,              \* per list entry: the counter of enumerate()
    found,              \* per list entry: the (url, line_number) pairs so far
    per_file,           \* per list entry: the Vec<Link> of find_urls_in_file
    raw_url_data,       \* the Vec<Link> find_urls returned
    index,              \* Option<Index>: Index::from_raw_data(raw_url_data)
    raw_permuted,       \* a permutation of raw_url_data
    index_permuted,     \* Option<Index>: Index::from_raw_data(raw_permuted)
    sink,               \* extract_links: the Vec inside the Mutex `links`
    mutex,              \* extract_links: the task holding the lock, or 0
    pushed_by,          \* history: the task that pushed each element of sink
    out_dir,            \* write_json: what stands at the output path
    out_files,          \* write_json: the files in the output directory
    out_before,         \* history: out_dir and out_files when write_json began
    write_pc,           \* write_json: where the call stands
    to_write,           \* write_json: the domains the loop has not reached
    written,            \* history: the domains whose file this call wrote
    write_result,       \* Option<SMResult<()>> write_json returned
    tree,               \* gather_files: the entries below `directory`
    extensions,         \* gather_files: the extensions argument
    exclude_folders,    \* gather_files: the exclude_folders argument
    gathered            \* Option<SMResult<Vec<PathBuf>>> gather_files returned

filterVars == <<url_string, line_arg, filter_result>>
taskVars == <<pc, pos, count, found, per_file>>
crawlVars == <<fs, filepaths, taskVars, raw_url_data>>
indexVars == <<index, raw_permuted, index_permuted>>
libVars == <<sink, mutex, pushed_by>>
outVars == <<out_dir, out_files, out_before, write_pc, to_write, written,
             write_result>>
gatherVars == <<tree, extensions, exclude_folders, gathered>>
vars == <<stage, wl_input, whitelist_domains, filterVars, crawlVars, indexVars,
          libVars, outVars, gatherVars>>

(***************************************************************************)
(* Bounds                                                                  *)
(***************************************************************************)
MaxWhitelist == 2

(***************************************************************************)
(* Option<T>                                                               *)
(***************************************************************************)
None == [some |-> FALSE]
Some(x) == [some |-> TRUE, val |-> x]

(***************************************************************************)
(* Text                                                                    *)
(***************************************************************************)
UpperToLower == [c \in {"E", "X", "C", "S"} |->
                   CASE c = "E" -> "e" [] c = "X" -> "x"
                     [] c = "C" -> "c" [] c = "S" -> "s"]

LowerAlpha == {"a", "b", "c", "e", "f", "g", "h", "i", "l", "m", "n", "o",
               "p", "s", "t", "u", "x"}

IsAlpha(c) == c \in LowerAlpha \/ c \in DOMAIN UpperToLower

\* a mutation: text is kept as written
ToLowercaseIdentity(s) == s

\* str::to_lowercase
ToLowercase(s) ==
    [k \in 1..Len(s) |-> IF s[k] \in DOMAIN UpperToLower
                         THEN UpperToLower[s[k]] ELSE s[k]]

DropFirst(s, n) == SubSeq(s, n + 1, Len(s))

\* str::starts_with / str::ends_with
StartsWith(s, p) == Len(p) <= Len(s) /\ SubSeq(s, 1, Len(p)) = p
EndsWith(s, suffix) ==
    Len(suffix) <= Len(s) /\ SubSeq(s, Len(s) - Len(suffix) + 1, Len(s)) = suffix

\* the least index k with s[k] \in cs, or Len(s) + 1
FindFirst(s, cs) ==
    LET hits == {k \in 1..Len(s) : s[k] \in cs}
    IN  IF hits = {} THEN Len(s) + 1
        ELSE CHOOSE k \in hits : \A j \in hits : k <= j

\* the number of "/" that s starts with
LeadingSlashes(s) ==
    LET others == {k \in 1..Len(s) : s[k] # "/"}
    IN  IF others = {} THEN Len(s)
        ELSE (CHOOSE k \in others : \A j \in others : k <= j) - 1

Http == <<"h", "t", "t", "p">>
Git == <<"g", "i", "t">>
Mailto == <<"m", "a", "i", "l", "t", "o">>
SpecialSchemes == {Http}

(***************************************************************************)
(* The texts of the inputs                                                 *)
(***************************************************************************)
ExCom == <<"e", "x", ".", "c", "o", "m">>
ExComUpper == <<"E", "X", ".", "c", "o", "m">>
SubExCom == <<"s", "u", "b", ".">> \o ExCom
NotExCom == <<"n", "o", "t">> \o ExCom
NoDashExCom == <<"n", "o", "-">> \o ExCom
OtherCom == <<"o", "t", "h", "e", "r", ".", "c", "o", "m">>
Sep == <<":", "/", "/">>

UrlPool == {
    Http \o Sep \o ExCom,
    Http \o Sep \o ExCom \o <<"/", "f", "o", "o">>,
    Http \o Sep \o ExComUpper \o <<"/", "#", "s">>,
    Http \o Sep \o SubExCom \o <<"/", "p", "#", "f">>,
    Http \o Sep \o <<"a", ".">> \o SubExCom,
    Http \o Sep \o NotExCom,
    Http \o Sep \o NoDashExCom,
    Http \o Sep \o OtherCom \o <<"/", "p">>,
    Http \o <<":">> \o ExCom,
    Http \o Sep,
    Git \o Sep \o ExComUpper,
    Mailto \o <<":">> \o ExCom,
    ExCom \o <<"/", "p">> }

\* the URLs of the files of a crawl
Word == <<"s", "e", "e">>
UrlS1 == Http \o Sep \o ExCom \o <<"/", "#", "s", "1">>
UrlSub == Http \o Sep \o SubExCom \o <<"/", "p", "#", "f">>
UrlUpper == Http \o Sep \o ExComUpper \o <<"/", "a", "#", "b", "#", "s", "1">>
UrlOther == Http \o Sep \o OtherCom \o <<"/", "p">>
UrlNot == Http \o Sep \o NotExCom

(***************************************************************************)
(* Url::parse followed by Url::host_str, for the URL shapes of UrlPool:    *)
(* Err for a URL without a scheme (relative URL without a base) and for a  *)
(* special scheme with an empty host; a special scheme ignores the slashes *)
(* after the colon and has its host lowercased by the parser; any other    *)
(* scheme has a host only behind "//", kept as written.                    *)
(***************************************************************************)
ParseErr == [ok |-> FALSE]
ParseOk(host) == [ok |-> TRUE, host |-> host]

ParseUrl(s) ==
    LET colon == FindFirst(s, {":"})
        scheme == ToLowercase(SubSeq(s, 1, colon - 1))
        rest == DropFirst(s, colon)
        slashes == LeadingSlashes(rest)
        authority(r) == SubSeq(r, 1, FindFirst(r, {"/", "?", "#"}) - 1)
    IN  IF \/ colon > Len(s)
           \/ scheme = <<>>
           \/ \E k \in 1..Len(scheme) : ~IsAlpha(scheme[k])
        THEN ParseErr
        ELSE IF scheme \in SpecialSchemes
        THEN LET host == authority(DropFirst(rest, slashes))
             IN  IF host = <<>> THEN ParseErr
                 ELSE ParseOk(Some(ToLowercase(host)))
        ELSE IF StartsWith(rest, <<"/", "/">>)
        THEN LET host == authority(DropFirst(rest, 2))
             IN  IF host = <<>> THEN ParseOk(None) ELSE ParseOk(Some(host))
        ELSE ParseOk(None)

\* ParseUrl, computed once for each URL of the inputs
ParsedUrls ==
    [u \in UrlPool \cup {UrlS1, UrlSub, UrlUpper, UrlOther, UrlNot} |-> ParseUrl(u)]

UrlParse(s) == IF s \in DOMAIN ParsedUrls THEN ParsedUrls[s] ELSE ParseUrl(s)

(***************************************************************************)
(* URLCrawler::new: the whitelist is lowercased once.                      *)
(***************************************************************************)
WhitelistLowercase(domains) == [k \in 1..Len(domains) |-> ToLowercase(domains[k])]

(***************************************************************************)
(* URLCrawler::filter_domains                                              *)
(***************************************************************************)
\* a mutation: the suffix test without the separating dot
DomainMatchesNoDot(domain, host_lowercase) ==
    \/ domain = host_lowercase
    \/ EndsWith(host_lowercase, domain)

\* the closure of find_map: does `domain` match the host?
DomainMatches(domain, host_lowercase) ==
    \/ domain = host_lowercase
    \/ EndsWith(host_lowercase, <<".">> \o domain)

\* a mutation: the host, not the whitelist entry, is returned on a match
RECURSIVE FindMapReturningHost(_, _, _)
FindMapReturningHost(domains, host_lowercase, k) ==
    IF k > Len(domains) THEN None
    ELSE IF DomainMatches(domains[k], host_lowercase) THEN Some(host_lowercase)
    ELSE FindMapReturningHost(domains, host_lowercase, k + 1)

\* Iterator::find_map over the whitelist from index k: the first match
RECURSIVE FindMap(_, _, _)
FindMap(domains, host_lowercase, k) ==
    IF k > Len(domains) THEN None
    ELSE IF DomainMatches(domains[k], host_lowercase) THEN Some(domains[k])
    ELSE FindMap(domains, host_lowercase, k + 1)

FilterDomains(domains, url, line_number) ==
    LET parsed_url == UrlParse(url)
    IN  IF parsed_url.ok /\ parsed_url.host.some
        THEN LET host_lowercase == ToLowercase(parsed_url.host.val)
             IN  IF domains = <<>>
                 THEN Some(<<url, host_lowercase, line_number>>)
                 ELSE LET matched == FindMap(domains, host_lowercase, 1)
                      IN  IF matched.some
                          THEN Some(<<url, matched.val, line_number>>)
                          ELSE None
        ELSE None

(***************************************************************************)
(* Inputs of filter_domains                                                *)
(***************************************************************************)
WhitelistEntries == {ExCom, ExComUpper, SubExCom, OtherCom}

Whitelists ==
    UNION {[1..n -> WhitelistEntries] : n \in 0..MaxWhitelist}

\* no index is built, extract_links is not running
IdleIndex ==
    /\ index = None /\ raw_permuted = <<>> /\ index_permuted = None
    /\ sink = <<>> /\ mutex = 0 /\ pushed_by = <<>>

\* write_json is not running: nothing stands at the output path
IdleOutput ==
    /\ out_dir = "absent" /\ out_files = <<>>
    /\ out_before = [dir |-> "absent", files |-> <<>>]
    /\ write_pc = "idle" /\ to_write = {} /\ written = {}
    /\ write_result = None

\* gather_files is not running
IdleGather ==
    /\ tree = <<>> /\ extensions = <<>> /\ exclude_folders = <<>>
    /\ gathered = None

\* no crawl is under way
IdleCrawl ==
    /\ fs = <<>> /\ filepaths = <<>>
    /\ pc = <<>> /\ pos = <<>> /\ count = <<>> /\ found = <<>> /\ per_file = <<>>
    /\ raw_url_data = <<>>
    /\ IdleIndex

(***************************************************************************)
(* A direct call of filter_domains on a constructed crawler                *)
(***************************************************************************)
InitFilter ==
    /\ stage = "start"
    /\ wl_input \in Whitelists
    /\ whitelist_domains = <<>>
    /\ url_string \in UrlPool
    /\ line_arg \in {0, 7}
    /\ filter_result = None
    /\ IdleCrawl
    /\ IdleOutput /\ IdleGather

\* URLCrawler::new
New ==
    /\ stage = "start"
    /\ whitelist_domains' = WhitelistLowercase(wl_input)
    /\ stage' = "constructed"
    /\ UNCHANGED <<wl_input, filterVars, crawlVars, indexVars, libVars,
                   outVars, gatherVars>>

CallFilterDomains ==
    /\ stage = "constructed"
    /\ filter_result' = FilterDomains(whitelist_domains, url_string, line_arg)
    /\ stage' = "filtered"
    /\ UNCHANGED <<wl_input, whitelist_domains, url_string, line_arg,
                   crawlVars, indexVars, libVars, outVars, gatherVars>>

NextFilter == New \/ CallFilterDomains

SpecFilter == InitFilter /\ [][NextFilter]_vars

(***************************************************************************)
(* Claims about filter_domains (checked under SpecFilter)                  *)
(***************************************************************************)
Filtered == stage = "filtered"
HasHost == UrlParse(url_string).ok /\ UrlParse(url_string).host.some
RawHost == UrlParse(url_string).host.val

\* d is h with every upper-case letter replaced by its lower-case letter
IsLowercaseOf(d, h) ==
    /\ Len(d) = Len(h)
    /\ \A k \in 1..Len(h) :
          /\ d[k] \notin DOMAIN UpperToLower
          /\ \/ d[k] = h[k]
             \/ h[k] \in DOMAIN UpperToLower /\ d[k] = UpperToLower[h[k]]

\* h is e, or h is some text, a dot, and e
EqualsOrSubdomainOf(h, e) ==
    \/ h = e
    \/ \E k \in 1..Len(h) : h[k] = "." /\ SubSeq(h, k + 1, Len(h)) = e

\* C1: with a non-empty whitelist, a URL that parses with a host is accepted
\* iff its lowercased host equals a lowercased whitelist entry or ends with a
\* dot followed by that entry; on acceptance the returned domain is such a
\* whitelist entry (so a host like notex.com is rejected against ex.com).
C1_WhitelistMatch ==
    (Filtered /\ wl_input # <<>> /\ HasHost) =>
        LET entries == {ToLowercase(wl_input[k]) : k \in 1..Len(wl_input)}
            host == ToLowercase(RawHost)
        IN  /\ filter_result.some <=>
                  \E e \in entries : EqualsOrSubdomainOf(host, e)
            /\ filter_result.some =>
                  /\ filter_result.val[2] \in entries
                  /\ EqualsOrSubdomainOf(host, filter_result.val[2])

\* C1 witness: a subdomain URL accepted under the whitelist entry, which is
\* not its host
C1_Witness ==
    /\ Filtered /\ wl_input = <<ExComUpper>> /\ HasHost
    /\ RawHost = SubExCom
    /\ filter_result.some /\ filter_result.val[2] = ExCom

\* C2 (as claimed): whenever the lowercased host equals a whitelist entry,
\* that entry is the returned domain, whatever other entries match.
C2_ExactMatchPrecedence ==
    (Filtered /\ HasHost
       /\ \E k \in 1..Len(whitelist_domains) :
             whitelist_domains[k] = ToLowercase(RawHost)) =>
        /\ filter_result.some
        /\ filter_result.val[2] = ToLowercase(RawHost)

\* C3: with an empty whitelist every URL that parses with a host is accepted
\* with its lowercased host as the domain; a URL that does not parse, or has
\* no host, is rejected whatever the whitelist.
C3_EmptyWhitelist ==
    Filtered =>
        /\ (wl_input = <<>> /\ HasHost) =>
              /\ filter_result.some
              /\ IsLowercaseOf(filter_result.val[2], RawHost)
        /\ ~HasHost => filter_result = None

\* C3 witness: an upper-case host accepted, lowercased, by the empty whitelist
C3_Witness ==
    /\ Filtered /\ wl_input = <<>> /\ HasHost
    /\ RawHost = ExComUpper
    /\ filter_result.some /\ filter_result.val[2] = ExCom

(***************************************************************************)
(* Streams.  BufRead::lines() yields one io::Result<String> per read: the  *)
(* text of a line, or an error.  A file is the sequence of results its     *)
(* reader yields, followed by end of file or, for a read error that recurs *)
(* (a directory opened as a file, a failing device), by Err for ever.      *)
(***************************************************************************)
OkLine(text) == [ok |-> TRUE, text |-> text]
ErrLine(kind) == [ok |-> FALSE, kind |-> kind]

Unopenable == [opens |-> FALSE]
File(lines, tail) == [opens |-> TRUE, lines |-> lines, tail |-> tail]

(***************************************************************************)
(* linkify's LinkFinder restricted to LinkKind::Url, on a line given as    *)
(* its whitespace-separated words: a word is a link when it has a scheme   *)
(* of letters, "://" and something after it; trailing dots are not part of *)
(* the link.  Links come out left to right.                                *)
(***************************************************************************)
RECURSIVE StripTrailingDots(_)
StripTrailingDots(w) ==
    IF w # <<>> /\ w[Len(w)] = "."
    THEN StripTrailingDots(SubSeq(w, 1, Len(w) - 1))
    ELSE w

IsUrlShaped(w) ==
    LET colon == FindFirst(w, {":"})
    IN  /\ colon > 1
        /\ \A k \in 1..(colon - 1) : IsAlpha(w[k])
        /\ StartsWith(DropFirst(w, colon - 1), Sep)
        /\ Len(StripTrailingDots(w)) > colon + 2

RECURSIVE FinderLinks(_)
FinderLinks(words) ==
    IF words = <<>> THEN <<>>
    ELSE (IF IsUrlShaped(Head(words))
          THEN <<StripTrailingDots(Head(words))>> ELSE <<>>)
         \o FinderLinks(Tail(words))

(***************************************************************************)
(* URLCrawler::find_urls_in_stream, one item of lines().enumerate() at a   *)
(* time.  The usize counter of enumerate() is kept to a narrow width.      *)
(***************************************************************************)
MaxFiles == 2
MaxLines == 3
CountWrap == 8

\* a mutation: the 0-based index of enumerate() is the line number
LinksOfItemZeroBased(line_number, line) ==
    IF line.ok
    THEN LET links == FinderLinks(line.text)
         IN  [k \in 1..Len(links) |-> <<links[k], line_number>>]
    ELSE <<>>

\* the closure of filter_map, on the item (line_number, line)
LinksOfItem(line_number, line) ==
    IF line.ok
    THEN LET links == FinderLinks(line.text)
         IN  [k \in 1..Len(links) |-> <<links[k], (line_number + 1) % CountWrap>>]
    ELSE <<>>

Tasks == DOMAIN filepaths
FileOf(i) == fs[filepaths[i]]

\* Link::new, then link.filepath = filepath.clone()
NewLink(arg_tuple, filepath) ==
    [url |-> arg_tuple[1], domain |-> arg_tuple[2],
     line_number |-> arg_tuple[3], filepath |-> filepath]

\* the filter_map / map / map chain of find_urls_in_file over the scan result
RECURSIVE FilterAndTag(_, _, _)
FilterAndTag(domains, pairs, filepath) ==
    IF pairs = <<>> THEN <<>>
    ELSE LET kept == FilterDomains(domains, Head(pairs)[1], Head(pairs)[2])
         IN  (IF kept.some THEN <<NewLink(kept.val, filepath)>> ELSE <<>>)
             \o FilterAndTag(domains, Tail(pairs), filepath)

\* File::open(&filepath): Ok
OpenFile(i) ==
    /\ stage = "constructed"
    /\ pc[i] = "start"
    /\ FileOf(i).opens
    /\ pc' = [pc EXCEPT ![i] = "scanning"]
    /\ UNCHANGED <<pos, count, found, per_file>>

\* File::open(&filepath): Err, dropped by filter_map
OpenFails(i) ==
    /\ stage = "constructed"
    /\ pc[i] = "start"
    /\ ~FileOf(i).opens
    /\ pc' = [pc EXCEPT ![i] = "skipped"]
    /\ UNCHANGED <<pos, count, found, per_file>>

\* lines() yields the next line, read or failed
ReadLine(i) ==
    /\ pc[i] = "scanning"
    /\ pos[i] < Len(FileOf(i).lines)
    /\ pos' = [pos EXCEPT ![i] = @ + 1]
    /\ count' = [count EXCEPT ![i] = (@ + 1) % CountWrap]
    /\ found' = [found EXCEPT
                   ![i] = @ \o LinksOfItem(count[i], FileOf(i).lines[pos[i] + 1])]
    /\ UNCHANGED <<pc, per_file>>

\* lines() yields Err once more: the read fails again and consumes nothing
ReadFailsAgain(i) ==
    /\ pc[i] = "scanning"
    /\ pos[i] = Len(FileOf(i).lines)
    /\ FileOf(i).tail = "err"
    /\ count' = [count EXCEPT ![i] = (@ + 1) % CountWrap]
    /\ found' = [found EXCEPT ![i] = @ \o LinksOfItem(count[i], ErrLine("Other"))]
    /\ UNCHANGED <<pc, pos, per_file>>

\* lines() yields None: find_urls_in_stream returns, find_urls_in_file
\* filters its pairs and makes the Links
EndOfFile(i) ==
    /\ pc[i] = "scanning"
    /\ pos[i] = Len(FileOf(i).lines)
    /\ FileOf(i).tail = "eof"
    /\ per_file' = [per_file EXCEPT
                      ![i] = FilterAndTag(whitelist_domains, found[i], filepaths[i])]
    /\ pc' = [pc EXCEPT ![i] = "done"]
    /\ UNCHANGED <<pos, count, found>>

\* one step of the parallel task of list entry i
TaskStep(i) ==
    /\ \/ OpenFile(i)
       \/ OpenFails(i)
       \/ ReadLine(i)
       \/ ReadFailsAgain(i)
       \/ EndOfFile(i)
    /\ UNCHANGED <<stage, wl_input, whitelist_domains, filterVars,
                   fs, filepaths, raw_url_data, indexVars, libVars,
                   outVars, gatherVars>>

\* a mutation: a Link whose URL was collected before is left out
RECURSIVE ConcatDeduplicated(_, _)
ConcatDeduplicated(seqs, k) ==
    IF k > Len(seqs) THEN <<>>
    ELSE LET rest == ConcatDeduplicated(seqs, k + 1)
         IN  SelectSeq(seqs[k],
                       LAMBDA l : \A j \in 1..Len(rest) : rest[j].url # l.url)
             \o rest

RECURSIVE Concat(_, _)
Concat(seqs, k) ==
    IF k > Len(seqs) THEN <<>> ELSE seqs[k] \o Concat(seqs, k + 1)

\* flat_map(..).collect(): every task is over; rayon's collect keeps the
\* order of the list
Collect ==
    /\ stage = "constructed"
    /\ \A i \in Tasks : pc[i] \in {"done", "skipped"}
    /\ raw_url_data' = Concat(per_file, 1)
    /\ stage' = "returned"
    /\ UNCHANGED <<wl_input, whitelist_domains, filterVars, fs, filepaths,
                   taskVars, indexVars, libVars, outVars, gatherVars>>

(***************************************************************************)
(* Index::from_raw_data.  A HashMap is a function on the set of its keys.  *)
(***************************************************************************)
\* str::split("#"), collected
RECURSIVE Split(_, _)
Split(s, sep) ==
    LET k == FindFirst(s, {sep})
    IN  IF k > Len(s) THEN <<s>>
        ELSE <<SubSeq(s, 1, k - 1)>> \o Split(DropFirst(s, k), sep)

\* a mutation: the part after the first '#'
FragmentOfFirst(url) ==
    LET parts == Split(url, "#")
    IN  IF Len(parts) > 1 THEN parts[2] ELSE <<>>

\* the fragment of raw_url.url
FragmentOf(url) ==
    LET parts == Split(url, "#")
    IN  IF Len(parts) > 1 THEN parts[Len(parts)] ELSE <<>>

\* map.entry(key).or_insert_with(make)
OrInsertWith(map, key, make) ==
    IF key \in DOMAIN map THEN map
    ELSE [k \in DOMAIN map \cup {key} |-> IF k = key THEN make ELSE map[k]]

\* a mutation: the bucket is replaced, not extended
InsertLinkReplacing(idx, raw_url) ==
    LET fragment == FragmentOf(raw_url.url)
        by_domain == OrInsertWith(idx, raw_url.domain, <<>>)
        by_fragment == OrInsertWith(by_domain[raw_url.domain], fragment, <<>>)
    IN  [by_domain EXCEPT
           ![raw_url.domain] = [by_fragment EXCEPT ![fragment] = <<raw_url>>]]

\* one iteration of the loop over raw_data
InsertLink(idx, raw_url) ==
    LET fragment == FragmentOf(raw_url.url)
        by_domain == OrInsertWith(idx, raw_url.domain, <<>>)
        by_fragment == OrInsertWith(by_domain[raw_url.domain], fragment, <<>>)
    IN  [by_domain EXCEPT
           ![raw_url.domain] = [by_fragment EXCEPT ![fragment] = Append(@, raw_url)]]

RECURSIVE InsertAll(_, _, _)
InsertAll(idx, raw_data, k) ==
    IF k > Len(raw_data) THEN idx
    ELSE InsertAll(InsertLink(idx, raw_data[k]), raw_data, k + 1)

FromRawData(raw_data) == InsertAll(<<>>, raw_data, 1)

\* Index::from_raw_data(raw_url_data), as main does after find_urls
BuildIndex ==
    /\ stage = "returned"
    /\ ~index.some
    /\ index' = Some(FromRawData(raw_url_data))
    /\ UNCHANGED <<stage, wl_input, whitelist_domains, filterVars, crawlVars,
                   raw_permuted, index_permuted, libVars, outVars, gatherVars>>

\* Index::from_raw_data on the same links in another order
BuildIndexPermuted ==
    /\ stage = "returned"
    /\ ~index_permuted.some
    /\ index_permuted' = Some(FromRawData(raw_permuted))
    /\ UNCHANGED <<stage, wl_input, whitelist_domains, filterVars, crawlVars,
                   index, raw_permuted, libVars, outVars, gatherVars>>

(***************************************************************************)
(* Inputs of a crawl                                                       *)
(***************************************************************************)

Paths == {"a.h", "b.cpp", "bad.h", "dir", "missing"}

RepoFS ==
    [p \in Paths |->
       CASE p = "a.h" ->
              File(<< OkLine(<<Word, UrlS1, UrlSub \o <<".">>>>),
                      ErrLine("InvalidData"),
                      OkLine(<<UrlOther, UrlS1>>) >>, "eof")
         [] p = "b.cpp" ->
              File(<< OkLine(<<Word, <<"e", "x", ".">>>>),
                      OkLine(<<UrlUpper, UrlNot, UrlS1>>) >>, "eof")
         [] p = "bad.h" -> File(<< OkLine(<<UrlS1>>) >>, "err")
         [] p = "dir" -> File(<<>>, "err")
         [] p = "missing" -> Unopenable]

PathLists == UNION {[1..n -> Paths] : n \in 0..MaxFiles}

CrawlWhitelists ==
    {<<>>, <<ExComUpper>>, <<ExCom, SubExCom>>, <<SubExCom, ExCom>>}

StartTasks ==
    /\ pc = [i \in Tasks |-> "start"]
    /\ pos = [i \in Tasks |-> 0]
    /\ count = [i \in Tasks |-> 0]
    /\ found = [i \in Tasks |-> <<>>]
    /\ per_file = [i \in Tasks |-> <<>>]
    /\ raw_url_data = <<>>
    /\ IdleIndex

IdleFilter == url_string = <<>> /\ line_arg = 0 /\ filter_result = None

\* URLCrawler::find_urls(filepaths, whitelist_domains) over the repository
Init ==
    /\ stage = "start"
    /\ wl_input \in CrawlWhitelists
    /\ whitelist_domains = <<>>
    /\ IdleFilter
    /\ fs = RepoFS
    /\ filepaths \in PathLists
    /\ StartTasks
    /\ IdleOutput /\ IdleGather

Next ==
    \/ New
    \/ \E i \in Tasks : TaskStep(i)
    \/ Collect
    \/ BuildIndex

Spec == Init /\ [][Next]_vars

\* rayon runs every task it has started until the task returns
FairSpec ==
    /\ Spec
    /\ WF_vars(New)
    /\ \A i \in 1..MaxFiles : WF_vars(i \in Tasks /\ TaskStep(i))
    /\ WF_vars(Collect)

(***************************************************************************)
(* find_urls_in_stream over every stream of at most MaxLines lines         *)
(***************************************************************************)
LinePool ==
    { OkLine(<<>>), OkLine(<<Word>>), OkLine(<<UrlS1>>),
      OkLine(<<UrlSub, Word, UrlS1 \o <<".">>>>),
      ErrLine("InvalidData"), ErrLine("Other") }

ScanFiles ==
    {Unopenable} \cup
    { File(lines, tail) :
        lines \in UNION {[1..n -> LinePool] : n \in 0..MaxLines},
        tail \in {"eof", "err"} }

InitScan ==
    /\ stage = "start"
    /\ wl_input = <<ExCom>>
    /\ whitelist_domains = <<>>
    /\ IdleFilter
    /\ \E f \in ScanFiles : fs = [p \in {"a.h"} |-> f]
    /\ filepaths = <<"a.h">>
    /\ StartTasks
    /\ IdleOutput /\ IdleGather

SpecScan == InitScan /\ [][Next]_vars

(***************************************************************************)
(* Index::from_raw_data over every list of at most MaxLinks links, and     *)
(* over a permutation of the list                                         *)
(***************************************************************************)
MaxLinks == 3

LinkPool ==
    { [url |-> UrlS1, domain |-> ExCom, line_number |-> 1, filepath |-> "a.h"],
      [url |-> UrlUpper, domain |-> ExCom, line_number |-> 2, filepath |-> "b.cpp"],
      [url |-> UrlSub, domain |-> SubExCom, line_number |-> 1, filepath |-> "a.h"],
      [url |-> UrlOther, domain |-> OtherCom, line_number |-> 3, filepath |-> "a.h"],
      [url |-> Http \o Sep \o OtherCom \o <<"/", "#">>, domain |-> OtherCom,
       line_number |-> 1, filepath |-> "b.cpp"] }

Orderings(n) ==
    {f \in [1..n -> 1..n] : \A a, b \in 1..n : f[a] = f[b] => a = b}

InitIndex ==
    /\ stage = "returned"
    /\ wl_input = <<>> /\ whitelist_domains = <<>>
    /\ IdleFilter
    /\ fs = <<>> /\ filepaths = <<>>
    /\ pc = <<>> /\ pos = <<>> /\ count = <<>> /\ found = <<>> /\ per_file = <<>>
    /\ raw_url_data \in UNION {[1..n -> LinkPool] : n \in 0..MaxLinks}
    /\ \E f \in Orderings(Len(raw_url_data)) :
          raw_permuted = [k \in 1..Len(raw_url_data) |-> raw_url_data[f[k]]]
    /\ index = None /\ index_permuted = None
    /\ sink = <<>> /\ mutex = 0 /\ pushed_by = <<>>
    /\ IdleOutput /\ IdleGather

NextIndex == BuildIndex \/ BuildIndexPermuted

SpecIndex == InitIndex /\ [][NextIndex]_vars

(***************************************************************************)
(* Index::write_json.  At the output path stands a directory ("dir"), a    *)
(* regular file ("file"), or nothing: "absent" where create_dir_all can    *)
(* make the directory, "blocked" where it cannot (a parent is a file or    *)
(* may not be written, or the path is a dangling link).  The directory's   *)
(* files are a function from file names to what was written into them.     *)
(***************************************************************************)
\* SMResult<()>
Ok == [ok |-> TRUE]
Err(e) == [ok |-> FALSE, err |-> e]

\* Path::exists and Path::is_dir of the output path
Exists(d) == d \in {"dir", "file"}
IsDir(d) == d = "dir"

JsonSuffix == <<".", "j", "s", "o", "n">>

\* a mutation: one file name for every domain
JsonFileNameFixed(domain) == <<"i", "n", "d", "e", "x">> \o JsonSuffix

\* format!("{}.json", domain)
JsonFileName(domain) == domain \o JsonSuffix

\* the file File::create made and to_writer_pretty wrote `items` into, to the
\* end (whole) or up to a failure
WrittenFile(items, whole) == [items |-> items, whole |-> whole]

\* the directory with the file `name` created or truncated, holding `file`
PutFile(files, name, file) ==
    [n \in DOMAIN files \cup {name} |-> IF n = name THEN file ELSE files[n]]

\* the output path exists and is not a directory: Err, nothing else happens
RejectNonDirectory ==
    /\ write_pc = "idle"
    /\ Exists(out_dir) /\ ~IsDir(out_dir)
    /\ write_result' = Some(Err("Output directory must be a directory."))
    /\ write_pc' = "returned"
    /\ UNCHANGED <<out_dir, out_files, to_write, written>>

\* fs::create_dir_all(&output_dir)?
CreateDirAll ==
    /\ write_pc = "idle"
    /\ ~(Exists(out_dir) /\ ~IsDir(out_dir))
    /\ IF out_dir = "blocked"
       THEN /\ write_result' = Some(Err("IoError"))
            /\ write_pc' = "returned"
            /\ UNCHANGED <<out_dir, to_write>>
       ELSE /\ out_dir' = "dir"
            /\ to_write' = DOMAIN index.val
            /\ write_pc' = "writing"
            /\ UNCHANGED write_result
    /\ UNCHANGED <<out_files, written>>

\* the loop reaches `domain`; File::create and to_writer_pretty succeed
WriteDomainFile(domain) ==
    /\ out_files' = PutFile(out_files, JsonFileName(domain),
                            WrittenFile(index.val[domain], TRUE))
    /\ written' = written \cup {domain}
    /\ UNCHANGED <<write_pc, write_result>>

\* the loop reaches `domain`; fs::File::create(&filepath)? fails
FileCreateFails(domain) ==
    /\ write_result' = Some(Err("IoError"))
    /\ write_pc' = "returned"
    /\ UNCHANGED <<out_files, written>>

\* the loop reaches `domain`; the file is created, to_writer_pretty(..)? fails
ToWriterFails(domain) ==
    /\ out_files' = PutFile(out_files, JsonFileName(domain),
                            WrittenFile(index.val[domain], FALSE))
    /\ write_result' = Some(Err("SerdeJsonError"))
    /\ write_pc' = "returned"
    /\ UNCHANGED written

\* one iteration of the loop over &self.index; a HashMap iterates in any order
WriteDomain ==
    /\ write_pc = "writing"
    /\ \E domain \in to_write :
          /\ to_write' = to_write \ {domain}
          /\ \/ WriteDomainFile(domain)
             \/ FileCreateFails(domain)
             \/ ToWriterFails(domain)
    /\ UNCHANGED out_dir

\* the loop is over: Ok(())
WriteJsonReturns ==
    /\ write_pc = "writing"
    /\ to_write = {}
    /\ write_result' = Some(Ok)
    /\ write_pc' = "returned"
    /\ UNCHANGED <<out_dir, out_files, to_write, written>>

\* one step of write_json(output_dir) on the index main has built
WriteJson ==
    /\ index.some
    /\ \/ RejectNonDirectory
       \/ CreateDirAll
       \/ WriteDomain
       \/ WriteJsonReturns
    /\ UNCHANGED <<stage, wl_input, whitelist_domains, filterVars, crawlVars,
                   indexVars, libVars, out_before, gatherVars>>

\* the files an earlier run left in the output directory
StaleFiles ==
    (JsonFileName(ExCom) :> WrittenFile(<<>>, TRUE))
        @@ (JsonFileName(NotExCom) :> WrittenFile(<<>>, TRUE))

\* Index::from_raw_data(raw_url_data).write_json(index_repository_path), for
\* every list of at most MaxLinks links and every kind of output path
InitWrite ==
    /\ stage = "returned"
    /\ wl_input = <<>> /\ whitelist_domains = <<>>
    /\ IdleFilter
    /\ fs = <<>> /\ filepaths = <<>>
    /\ pc = <<>> /\ pos = <<>> /\ count = <<>> /\ found = <<>> /\ per_file = <<>>
    /\ raw_url_data \in UNION {[1..n -> LinkPool] : n \in 0..MaxLinks}
    /\ raw_permuted = <<>>
    /\ index = None /\ index_permuted = None
    /\ sink = <<>> /\ mutex = 0 /\ pushed_by = <<>>
    /\ out_dir \in {"absent", "blocked", "dir", "file"}
    /\ out_files \in (IF out_dir = "dir" THEN {<<>>, StaleFiles} ELSE {<<>>})
    /\ out_before = [dir |-> out_dir, files |-> out_files]
    /\ write_pc = "idle" /\ to_write = {} /\ written = {}
    /\ write_result = None
    /\ IdleGather

NextWrite == BuildIndex \/ WriteJson

SpecWrite == InitWrite /\ [][NextWrite]_vars

(***************************************************************************)
(* util.rs: gather_files.  A path is the sequence of its components, a     *)
(* component the sequence of its characters.  The tree is the sequence of  *)
(* the entries at and below `directory`, in the order the file system      *)
(* lists them; each entry has its path relative to `directory` and its     *)
(* kind.                                                                   *)
(***************************************************************************)
MaxExtensions == 2
MaxExcludes == 2

Entry(path, kind) == [path |-> path, kind |-> kind]

\* the `directory` argument
Root == << <<"r", "e", "p", "o">> >>

\* names of the entries
NameAC == <<"a", ".", "c">>
NameBUpperC == <<"b", ".", "C">>
NameXCc == <<"x", ".", "c", "c">>
NameM == <<"m">>
NameDotEC == <<".", "e", ".", "c">>
NameS == <<"s">>
NameSs == <<"s", "s">>
NameG == <<"g">>
NameDotG == <<".", "g">>
NameOC == <<"o", ".", "c">>
NameL == <<"l">>

RepoTree ==
    << Entry(<<>>, "dir"),
       Entry(<<NameAC>>, "file"),
       Entry(<<NameM>>, "file"),
       Entry(<<NameDotEC>>, "file"),
       Entry(<<NameS>>, "dir"),
       Entry(<<NameS, NameBUpperC>>, "file"),
       Entry(<<NameS, NameG>>, "dir"),
       Entry(<<NameS, NameG, NameAC>>, "file"),
       Entry(<<NameSs>>, "dir"),
       Entry(<<NameSs, NameXCc>>, "file"),
       Entry(<<NameSs, NameAC>>, "file"),
       Entry(<<NameDotG>>, "dir"),
       Entry(<<NameDotG, NameAC>>, "file"),
       Entry(<<NameOC>>, "dir"),
       Entry(<<NameOC, NameM>>, "file"),
       Entry(<<NameL>>, "symlink to dir") >>

SmallTree ==
    << Entry(<<>>, "dir"),
       Entry(<<NameG>>, "dir"),
       Entry(<<NameG, NameBUpperC>>, "file") >>

Trees == {RepoTree, SmallTree, <<Entry(<<>>, "dir")>>}

\* jwalk's is_hidden: the file name starts with a dot
IsHidden(name) == name # <<>> /\ name[1] = "."

\* WalkDir::new(&directory) with jwalk's defaults (skip_hidden on, links not
\* followed): `directory` itself and every entry below it that is not hidden
\* and not below a hidden directory, each with its full path
WalkDir(directory, entries) ==
    LET listed == SelectSeq(entries,
                            LAMBDA e : \A k \in 1..Len(e.path) : ~IsHidden(e.path[k]))
    IN  [k \in 1..Len(listed) |-> Entry(directory \o listed[k].path, listed[k].kind)]

\* Path::is_file
IsFile(entry) == entry.kind = "file"

\* Path::strip_prefix(&directory)
StripPrefix(path, base) == DropFirst(path, Len(base))

\* Path::starts_with: component by component
PathStartsWith(path, base) == StartsWith(path, base)

\* Path::extension: the part of the file name after its last dot; none when
\* the name has no dot, or none but the one it begins with
Extension(path) ==
    LET name == path[Len(path)]
        dots == {k \in 1..Len(name) : name[k] = "."}
        last == CHOOSE k \in dots : \A j \in dots : j <= k
    IN  IF dots = {} THEN None
        ELSE IF last = 1 THEN None
        ELSE Some(SubSeq(name, last + 1, Len(name)))

\* Option::unwrap_or_default
UnwrapOrDefault(opt) == IF opt.some THEN opt.val ELSE <<>>

\* OsStr::eq_ignore_ascii_case
EqIgnoreAsciiCase(a, b) == ToLowercase(a) = ToLowercase(b)

\* the closure of the second filter
NotExcluded(path, directory, excludes) ==
    LET relpath == StripPrefix(path, directory)
    IN  ~ \E k \in 1..Len(excludes) : PathStartsWith(relpath, excludes[k])

\* the closure of the third filter
ExtensionListed(path, exts) ==
    \/ exts = <<>>
    \/ \E k \in 1..Len(exts) :
          EqIgnoreAsciiCase(UnwrapOrDefault(Extension(path)), exts[k])

\* the chain of filters and the map of gather_files, collected
GatherFiles(directory, entries, exts, excludes) ==
    LET files == SelectSeq(WalkDir(directory, entries), IsFile)
        kept == SelectSeq(files,
                          LAMBDA p : NotExcluded(p.path, directory, excludes))
        listed == SelectSeq(kept, LAMBDA p : ExtensionListed(p.path, exts))
    IN  [k \in 1..Len(listed) |-> listed[k].path]

\* gather_files(directory, extensions, exclude_folders) returns Ok(files)
GatherFilesReturns ==
    /\ stage = "gathering"
    /\ gathered' = Some([ok |-> TRUE,
                         val |-> GatherFiles(Root, tree, extensions, exclude_folders)])
    /\ stage' = "gathered"
    /\ UNCHANGED <<wl_input, whitelist_domains, filterVars, crawlVars, indexVars,
                   libVars, outVars, tree, extensions, exclude_folders>>

\* try_into_iter() fails: the error is returned
TryIntoIterFails ==
    /\ stage = "gathering"
    /\ gathered' = Some(Err("IoError"))
    /\ stage' = "gathered"
    /\ UNCHANGED <<wl_input, whitelist_domains, filterVars, crawlVars, indexVars,
                   libVars, outVars, tree, extensions, exclude_folders>>

ExtensionPool == { <<"c">>, <<"C">>, <<".", "c">>, <<>> }
ExcludePool == { <<NameS>>, <<NameS, NameG>>, <<NameG>>, <<>> }

InitGather ==
    /\ stage = "gathering"
    /\ wl_input = <<>> /\ whitelist_domains = <<>>
    /\ IdleFilter
    /\ IdleCrawl
    /\ IdleOutput
    /\ tree \in Trees
    /\ extensions \in UNION {[1..n -> ExtensionPool] : n \in 0..MaxExtensions}
    /\ exclude_folders \in UNION {[1..n -> ExcludePool] : n \in 0..MaxExcludes}
    /\ gathered = None

NextGather == GatherFilesReturns \/ TryIntoIterFails

SpecGather == InitGather /\ [][NextGather]_vars

(***************************************************************************)
(* lib.rs: extract_links.  Every task scans its file with                  *)
(* extract_links_from_reader and then pushes its links, one lock of the    *)
(* mutex per link, into the shared vector.                                 *)
(***************************************************************************)
\* Link::new(url, line_number, file_path.clone())
LibLink(pair, file_name) ==
    [url |-> pair[1], line_number |-> pair[2], file_name |-> file_name]

\* the body of the loop over reader.lines().enumerate()
LibLinksOfItem(line_number, line_result) ==
    IF line_result.ok
    THEN LET links == FinderLinks(line_result.text)
         IN  [k \in 1..Len(links) |-> <<links[k], (line_number + 1) % CountWrap>>]
    ELSE <<>>

\* a mutation: the link is put in front
VecPushFront(vec, x) == <<x>> \o vec

\* Vec::push
VecPush(vec, x) == Append(vec, x)

LibOpenFile(i) ==
    /\ pc[i] = "start"
    /\ FileOf(i).opens
    /\ pc' = [pc EXCEPT ![i] = "scanning"]
    /\ UNCHANGED <<pos, count, found, libVars>>

\* the file cannot be opened: it is skipped
LibOpenFails(i) ==
    /\ pc[i] = "start"
    /\ ~FileOf(i).opens
    /\ pc' = [pc EXCEPT ![i] = "skipped"]
    /\ UNCHANGED <<pos, count, found, libVars>>

LibReadLine(i) ==
    /\ pc[i] = "scanning"
    /\ pos[i] < Len(FileOf(i).lines)
    /\ pos' = [pos EXCEPT ![i] = @ + 1]
    /\ count' = [count EXCEPT ![i] = (@ + 1) % CountWrap]
    /\ found' = [found EXCEPT
                   ![i] = @ \o LibLinksOfItem(count[i], FileOf(i).lines[pos[i] + 1])]
    /\ UNCHANGED <<pc, libVars>>

LibReadFailsAgain(i) ==
    /\ pc[i] = "scanning"
    /\ pos[i] = Len(FileOf(i).lines)
    /\ FileOf(i).tail = "err"
    /\ count' = [count EXCEPT ![i] = (@ + 1) % CountWrap]
    /\ found' = [found EXCEPT ![i] = @ \o LibLinksOfItem(count[i], ErrLine("Other"))]
    /\ UNCHANGED <<pc, pos, libVars>>

\* extract_links_from_reader returns `links`
LibEndOfFile(i) ==
    /\ pc[i] = "scanning"
    /\ pos[i] = Len(FileOf(i).lines)
    /\ FileOf(i).tail = "eof"
    /\ pc' = [pc EXCEPT ![i] = "pushing"]
    /\ UNCHANGED <<pos, count, found, libVars>>

\* links.lock().unwrap()
LibLock(i) ==
    /\ pc[i] = "pushing"
    /\ found[i] # <<>>
    /\ mutex = 0
    /\ mutex' = i
    /\ pc' = [pc EXCEPT ![i] = "locked"]
    /\ UNCHANGED <<pos, count, found, sink, pushed_by>>

\* .push(link_entry); the guard is dropped at the end of the statement
LibPush(i) ==
    /\ pc[i] = "locked"
    /\ sink' = VecPush(sink, LibLink(Head(found[i]), filepaths[i]))
    /\ pushed_by' = VecPush(pushed_by, i)
    /\ found' = [found EXCEPT ![i] = Tail(@)]
    /\ mutex' = 0
    /\ pc' = [pc EXCEPT ![i] = "pushing"]
    /\ UNCHANGED <<pos, count>>

\* the loop over extracted_links is over
LibTaskEnds(i) ==
    /\ pc[i] = "pushing"
    /\ found[i] = <<>>
    /\ pc' = [pc EXCEPT ![i] = "done"]
    /\ UNCHANGED <<pos, count, found, libVars>>

LibTaskStep(i) ==
    /\ stage = "extracting"
    /\ \/ LibOpenFile(i)
       \/ LibOpenFails(i)
       \/ LibReadLine(i)
       \/ LibReadFailsAgain(i)
       \/ LibEndOfFile(i)
       \/ LibLock(i)
       \/ LibPush(i)
       \/ LibTaskEnds(i)
    /\ UNCHANGED <<stage, wl_input, whitelist_domains, filterVars,
                   fs, filepaths, per_file, raw_url_data, indexVars,
                   outVars, gatherVars>>

\* for_each is over: links.into_inner().unwrap() is returned
LibReturn ==
    /\ stage = "extracting"
    /\ \A i \in Tasks : pc[i] \in {"done", "skipped"}
    /\ stage' = "returned"
    /\ UNCHANGED <<wl_input, whitelist_domains, filterVars, crawlVars, indexVars,
                   libVars, outVars, gatherVars>>

LibFS ==
    [p \in {"x.h", "y.h", "dir", "missing"} |->
       CASE p = "x.h" ->
              File(<< OkLine(<<UrlSub>>), ErrLine("InvalidData"),
                      OkLine(<<Word, UrlS1>>) >>, "eof")
         [] p = "y.h" -> File(<< OkLine(<<UrlS1, UrlSub>>) >>, "eof")
         [] p = "dir" -> File(<<>>, "err")
         [] p = "missing" -> Unopenable]

\* extract_links(file_paths)
InitLib ==
    /\ stage = "extracting"
    /\ wl_input = <<>> /\ whitelist_domains = <<>>
    /\ IdleFilter
    /\ fs = LibFS
    /\ filepaths \in UNION {[1..n -> DOMAIN LibFS] : n \in 0..MaxFiles}
    /\ StartTasks
    /\ IdleOutput /\ IdleGather

NextLib ==
    \/ \E i \in Tasks : LibTaskStep(i)
    \/ LibReturn

SpecLib == InitLib /\ [][NextLib]_vars

(***************************************************************************)
(* Claims about the scan, the crawl and the index                          *)
(***************************************************************************)
Range(seq) == {seq[k] : k \in 1..Len(seq)}
CountIn(seq, x) == Cardinality({k \in 1..Len(seq) : seq[k] = x})

Occurrences ==
    UNION { UNION { { <<i, k, t>> :
                        t \in {t \in 1..Len(FileOf(i).lines[k].text) :
                                 IsUrlShaped(FileOf(i).lines[k].text[t])} } :
                    k \in {k \in 1..Len(FileOf(i).lines) : FileOf(i).lines[k].ok} } :
            i \in {i \in Tasks : FileOf(i).opens} }

UrlAt(o) == StripTrailingDots(FileOf(o[1]).lines[o[2]].text[o[3]])

\* the Link an occurrence gives under the whitelist, if it is accepted
LinkAt(o) ==
    LET kept == FilterDomains(whitelist_domains, UrlAt(o), o[2])
    IN  IF kept.some
        THEN Some([url |-> UrlAt(o), domain |-> kept.val[2],
                   line_number |-> o[2], filepath |-> filepaths[o[1]]])
        ELSE None

\* C5: the Links find_urls returns are, as a multiset, the accepted links of
\* every list entry that opens, tagged with the entry's path: each Link is
\* returned as many times as it occurs, and an entry that does not open
\* adds nothing.
C5_MultisetUnion ==
    stage = "returned" =>
        /\ \A l \in Range(raw_url_data) :
              CountIn(raw_url_data, l) =
                  Cardinality({o \in Occurrences : LinkAt(o) = Some(l)})
        /\ \A o \in Occurrences :
              LinkAt(o).some => LinkAt(o).val \in Range(raw_url_data)

\* C5 witness: a list with an entry that does not open and a file holding the
\* same URL twice
C5_Witness ==
    /\ stage = "returned"
    /\ filepaths = <<"missing", "a.h">>
    /\ wl_input = <<>>
    /\ Len(raw_url_data) = 4
    /\ Cardinality({k \in 1..4 : raw_url_data[k].url = UrlS1}) = 2

\* the text after the last '#' of url, empty when there is none
AfterLastHash(url) ==
    LET hashes == {k \in 1..Len(url) : url[k] = "#"}
    IN  IF hashes = {} THEN <<>>
        ELSE SubSeq(url, (CHOOSE k \in hashes : \A j \in hashes : j <= k) + 1,
                    Len(url))

\* the keys of the buckets of an index
Keys(idx) == UNION {{<<d, f>> : f \in DOMAIN idx[d]} : d \in DOMAIN idx}

\* C7: after from_raw_data every bucket is non-empty and holds only Links of
\* its key's domain and fragment (the text after the last '#', or empty), and
\* every input Link is in the bucket of its own key as often as it is in the
\* input, and nothing else is in the index.
C7_BucketsPartition ==
    index.some =>
        LET idx == index.val
        IN  /\ \A key \in Keys(idx) :
                  LET bucket == idx[key[1]][key[2]]
                  IN  /\ bucket # <<>>
                      /\ \A k \in 1..Len(bucket) :
                            /\ bucket[k].domain = key[1]
                            /\ AfterLastHash(bucket[k].url) = key[2]
                            /\ bucket[k] \in Range(raw_url_data)
            /\ \A l \in Range(raw_url_data) :
                  /\ <<l.domain, AfterLastHash(l.url)>> \in Keys(idx)
                  /\ CountIn(idx[l.domain][AfterLastHash(l.url)], l)
                       = CountIn(raw_url_data, l)

\* C7 witness: a bucket of three Links, two of them equal, the third with two
\* '#' in its URL
C7_Witness ==
    /\ index.some
    /\ \E key \in Keys(index.val) :
          LET bucket == index.val[key[1]][key[2]]
          IN  /\ Len(bucket) = 3
              /\ bucket[1] = bucket[3]
              /\ bucket[2].url = UrlUpper

\* C8: the index of a list and the index of a permutation of it have the same
\* keys and, under each key, the same Links the same number of times.
C8_OrderIndependent ==
    (index.some /\ index_permuted.some) =>
        /\ Keys(index.val) = Keys(index_permuted.val)
        /\ \A key \in Keys(index.val) \cap Keys(index_permuted.val) :
              LET one == index.val[key[1]][key[2]]
                  other == index_permuted.val[key[1]][key[2]]
              IN  \A l \in Range(one) \cup Range(other) :
                      CountIn(one, l) = CountIn(other, l)

\* C8 witness: two indexes built, with a bucket whose Links stand in another
\* order
C8_Witness ==
    /\ index.some /\ index_permuted.some
    /\ \E key \in Keys(index.val) \cap Keys(index_permuted.val) :
          index.val[key[1]][key[2]] # index_permuted.val[key[1]][key[2]]

\* the Links of an index, each with the key of its bucket
IndexedLinks(idx) ==
    UNION { {<<key, idx[key[1]][key[2]][k]>> :
               k \in 1..Len(idx[key[1]][key[2]])} : key \in Keys(idx) }

HostOfUrl(url) == ToLowercase(UrlParse(url).host.val)
LowercasedWhitelist == {ToLowercase(wl_input[k]) : k \in 1..Len(wl_input)}

\* h is a proper subdomain of g
IsSubdomainOf(h, g) == h # g /\ EqualsOrSubdomainOf(h, g)

\* the domain keys are whitelist entries, and a URL whose host matches no
\* whitelist entry is in no bucket
OnlyWhitelistedKeys ==
    /\ DOMAIN index.val \subseteq LowercasedWhitelist
    /\ \A o \in Occurrences :
          LET parsed == UrlParse(UrlAt(o))
          IN  (~ \E e \in LowercasedWhitelist :
                   /\ parsed.ok /\ parsed.host.some
                   /\ EqualsOrSubdomainOf(HostOfUrl(UrlAt(o)), e)) =>
                  \A il \in IndexedLinks(index.val) : il[2].url # UrlAt(o)

\* C9 (as claimed): with a non-empty whitelist the index built from the crawl
\* has only whitelist entries as domain keys, holds no URL whose host matches
\* no entry, and groups the URLs of a whitelisted host and of each of its
\* subdomains under one key.
C9_WhitelistContainment ==
    (index.some /\ wl_input # <<>>) =>
        /\ OnlyWhitelistedKeys
        /\ \A a, b \in IndexedLinks(index.val) :
              (/\ HostOfUrl(a[2].url) \in LowercasedWhitelist
               /\ IsSubdomainOf(HostOfUrl(b[2].url), HostOfUrl(a[2].url))) =>
                  a[1][1] = b[1][1]

\* the place in the whitelist of the first entry the host equals or is a
\* subdomain of
FirstMatching(h) ==
    CHOOSE k \in 1..Len(wl_input) :
        /\ EqualsOrSubdomainOf(h, ToLowercase(wl_input[k]))
        /\ \A j \in 1..(k - 1) : ~EqualsOrSubdomainOf(h, ToLowercase(wl_input[j]))

\* C9 (amended): as claimed, but a whitelisted host and a subdomain of it
\* share their key only when no whitelist entry that the subdomain matches
\* stands before the first entry the host matches.
C9_WhitelistContainmentAmended ==
    (index.some /\ wl_input # <<>>) =>
        /\ OnlyWhitelistedKeys
        /\ \A a, b \in IndexedLinks(index.val) :
              (/\ HostOfUrl(a[2].url) \in LowercasedWhitelist
               /\ IsSubdomainOf(HostOfUrl(b[2].url), HostOfUrl(a[2].url))
               /\ \A j \in 1..(FirstMatching(HostOfUrl(a[2].url)) - 1) :
                     ~EqualsOrSubdomainOf(HostOfUrl(b[2].url),
                                          ToLowercase(wl_input[j]))) =>
                  a[1][1] = b[1][1]

\* C9 witness: a crawl of a file with a whitelisted host, a subdomain of it
\* and a foreign host, indexed under the one whitelist entry
C9_Witness ==
    /\ index.some
    /\ wl_input = <<ExCom, SubExCom>>
    /\ filepaths = <<"a.h">>
    /\ DOMAIN index.val = {ExCom}
    /\ \E k \in 1..Len(raw_url_data) : raw_url_data[k].url = UrlSub
    /\ \A k \in 1..Len(raw_url_data) : raw_url_data[k].url # UrlOther

\* C10 (as claimed): every crawl returns.
C10_CrawlTerminates == <>(stage = "returned")

\* the (url, line_number) pairs of the lines from the k-th on, in order
RECURSIVE PairsOfLines(_, _)
PairsOfLines(lines, k) ==
    IF k > Len(lines) THEN <<>>
    ELSE (IF lines[k].ok
          THEN [t \in 1..Len(FinderLinks(lines[k].text)) |->
                  <<FinderLinks(lines[k].text)[t], k>>]
          ELSE <<>>)
         \o PairsOfLines(lines, k + 1)

\* the links of list entry i, as the scanner emits them
EmittedBy(i) ==
    IF FileOf(i).opens
    THEN LET pairs == PairsOfLines(FileOf(i).lines, 1)
         IN  [k \in 1..Len(pairs) |->
                [url |-> pairs[k][1], line_number |-> pairs[k][2],
                 file_name |-> filepaths[i]]]
    ELSE <<>>

\* the elements of the sink that task i pushed, in the order of the sink
PushedBy(i) ==
    LET at == {k \in 1..Len(sink) : pushed_by[k] = i}
        nth[n \in 0..Cardinality(at)] ==
            IF n = 0 THEN 0
            ELSE CHOOSE k \in at :
                     Cardinality({j \in at : j <= k}) = n
    IN  [n \in 1..Cardinality(at) |-> sink[nth[n]]]

\* C6: under every interleaving, what a task has pushed into the shared
\* vector is, in the order of the vector, a prefix of the links the scanner
\* emitted for its file, every push adds one element, and when extract_links
\* returns the vector holds each link of each opened file once, the links of
\* one file in the scanner's order.
C6_SinkIntegrity ==
    /\ Len(pushed_by) = Len(sink)
    /\ \A i \in Tasks :
          /\ Len(PushedBy(i)) <= Len(EmittedBy(i))
          /\ PushedBy(i) = SubSeq(EmittedBy(i), 1, Len(PushedBy(i)))
          /\ pc[i] \in {"done", "skipped"} => PushedBy(i) = EmittedBy(i)
    /\ stage = "returned" =>
          \A i \in Tasks : PushedBy(i) = EmittedBy(i)

\* C6 witness: extract_links has returned a vector in which the links of two
\* files are interleaved
C6_Witness ==
    /\ stage = "returned"
    /\ filepaths = <<"x.h", "y.h">>
    /\ pushed_by = <<2, 1, 2, 1>>

(***************************************************************************)
(* Claims about write_json (checked under SpecWrite)                       *)
(***************************************************************************)
\* the name <domain>.json
DomainJson(domain) == domain \o <<".", "j", "s", "o", "n">>

\* C11: a call of write_json on an output path that exists and is not a
\* directory returns an error, makes no directory and writes no file;
\* otherwise a call that returns Ok has made the directory where it was absent
\* and has written, for each domain key of the index, one file <domain>.json
\* of its own holding that domain's items, leaving every other file as it
\* was; a write that fails makes the call return an error; and the files the
\* call has written stay as written, also when it returns an error.
C11_WriteJsonOutput ==
    /\ write_pc # "idle" =>
          \A d \in written :
              /\ DomainJson(d) \in DOMAIN out_files
              /\ out_files[DomainJson(d)] = [items |-> index.val[d], whole |-> TRUE]
    /\ (\E name \in DOMAIN out_files : ~out_files[name].whole) =>
          write_pc = "returned" /\ ~write_result.val.ok
    /\ write_pc = "returned" =>
          /\ out_before.dir = "file" =>
                /\ ~write_result.val.ok
                /\ out_dir = "file" /\ out_files = out_before.files
                /\ written = {}
          /\ (out_before.dir # "file" /\ write_result.val.ok) =>
                LET names == {DomainJson(d) : d \in DOMAIN index.val}
                IN  /\ out_dir = "dir"
                    /\ written = DOMAIN index.val
                    /\ Cardinality(names) = Cardinality(DOMAIN index.val)
                    /\ DOMAIN out_files = DOMAIN out_before.files \cup names
                    /\ \A name \in DOMAIN out_before.files \ names :
                          out_files[name] = out_before.files[name]
          /\ out_before.dir \in {"absent", "dir"} => out_dir = "dir"

\* C11 witness: the directory was absent and has been made, the file of one
\* domain was written, the write of another domain's file failed, and the
\* call has returned the error with the first file in place
C11_Witness ==
    /\ write_pc = "returned" /\ ~write_result.val.ok
    /\ out_before.dir = "absent" /\ out_dir = "dir"
    /\ written = {ExCom}
    /\ out_files[DomainJson(ExCom)].whole
    /\ DomainJson(OtherCom) \in DOMAIN out_files
    /\ ~out_files[DomainJson(OtherCom)].whole

(***************************************************************************)
(* Claims about gather_files (checked under SpecGather)                    *)
(***************************************************************************)
\* the text after the last dot of the file name, empty when the name has no
\* dot or only the dot it begins with
ExtensionOfName(name) ==
    LET dots == {k \in 2..Len(name) : name[k] = "."}
    IN  IF dots = {} THEN <<>>
        ELSE SubSeq(name, (CHOOSE k \in dots : \A j \in dots : j <= k) + 1, Len(name))

\* a and b are equal but for the case of their letters
EqualIgnoringCase(a, b) ==
    /\ Len(a) = Len(b)
    /\ \A k \in 1..Len(a) :
          \/ a[k] = b[k]
          \/ a[k] \in DOMAIN UpperToLower /\ UpperToLower[a[k]] = b[k]
          \/ b[k] \in DOMAIN UpperToLower /\ UpperToLower[b[k]] = a[k]

\* the filter rule: a regular file, not below an excluded subpath, with a
\* listed extension if any is listed
PassesFilterRule(e) ==
    /\ e.kind = "file"
    /\ \A k \in 1..Len(exclude_folders) :
          ~(/\ Len(exclude_folders[k]) <= Len(e.path)
            /\ \A j \in 1..Len(exclude_folders[k]) :
                  e.path[j] = exclude_folders[k][j])
    /\ \/ extensions = <<>>
       \/ \E k \in 1..Len(extensions) :
             EqualIgnoringCase(ExtensionOfName(e.path[Len(e.path)]), extensions[k])

Yielded == Range(gathered.val.val)

\* C12 (as claimed): gather_files yields exactly the regular files below the
\* root that are not below an excluded subpath and have a listed extension
\* (any, when none is listed); an excluded file and a directory are never
\* yielded.
C12_FilterRule ==
    (gathered.some /\ gathered.val.ok) =>
        /\ Yielded = {Root \o tree[k].path :
                        k \in {k \in 1..Len(tree) : PassesFilterRule(tree[k])}}
        /\ \A k \in 1..Len(tree) :
              tree[k].kind # "file" => Root \o tree[k].path \notin Yielded

\* no component of the path begins with a dot
NotHidden(e) == \A k \in 1..Len(e.path) : e.path[k][1] # "."

\* the rule that holds: as claimed, of the files that are not hidden and not
\* below a hidden directory, each yielded once
GatherFilesRule ==
    (gathered.some /\ gathered.val.ok) =>
        /\ Yielded = {Root \o tree[k].path :
                        k \in {k \in 1..Len(tree) :
                                 PassesFilterRule(tree[k]) /\ NotHidden(tree[k])}}
        /\ Len(gathered.val.val) = Cardinality(Yielded)

(***************************************************************************)
(* Claims about failed reads in a scan (checked under SpecScan)            *)
(***************************************************************************)
\* Does the item of lines() use up a line of the input?  A line that is read
\* does, and so does a line that fails to decode: read_line consumes its
\* bytes before it rejects them.  A read error is returned before any byte
\* is consumed, so the next item starts at the same place of the input.
ConsumesLine(item) == item.ok \/ item.kind = "InvalidData"

\* the 1-based position, in the input, of the line the n-th item is read from
InputPosition(lines, n) == Cardinality({j \in 1..n : ConsumesLine(lines[j])})

\* the pairs of the first n items, each link with the input position of its
\* line, and none for an item that failed
RECURSIVE PairsByInputPosition(_, _)
PairsByInputPosition(lines, n) ==
    IF n = 0 THEN <<>>
    ELSE PairsByInputPosition(lines, n - 1)
         \o (IF lines[n].ok
             THEN [t \in 1..Len(FinderLinks(lines[n].text)) |->
                     <<FinderLinks(lines[n].text)[t], InputPosition(lines, n)>>]
             ELSE <<>>)

\* C13 (as claimed): a line whose read fails, by a decode or a read error,
\* gives no pair, the scan goes on with the lines after it, and the links of
\* every line that is read are emitted with the line's 1-based position in
\* the input, failed lines counted.
C13_FailedLinesKeepNumbers ==
    \A i \in Tasks :
        pc[i] \in {"scanning", "done"} =>
            found[i] = PairsByInputPosition(FileOf(i).lines, pos[i])

\* the part that holds: in a stream whose only failures are decode errors,
\* every link is emitted with its line's position in the input
DecodeErrorsKeepNumbers ==
    \A i \in Tasks :
        (/\ pc[i] \in {"scanning", "done"}
         /\ \A k \in 1..Len(FileOf(i).lines) : ConsumesLine(FileOf(i).lines[k])) =>
            found[i] = PairsByInputPosition(FileOf(i).lines, pos[i])

====
